---------------------------- MODULE Spec2Model ----------------------------
(***************************************************************************)
(* Model of the Explore utilities of Grafana (app/core/utils/explore.ts):  *)
(* the URL state codec, query key allocation, query transactions, result   *)
(* aggregation, colour assignment, the query history and the asynchronous  *)
(* derivation of an Explore URL for a panel.                               *)
(*                                                                         *)
(* Each component has its own specification (SpecUrl, SpecQueries, ...):   *)
(* the variables of the other components stay at their idle value.         *)
(***************************************************************************)
EXTENDS Integers, Sequences, FiniteSets, TLC

VARIABLES
  urlState,      \* the session state (ExploreUrlState) the pane holds
  urlParam,      \* the text of the URL parameter
  urlSource,     \* who wrote urlParam: "none", "compact", "full" or "user"
  parsed,        \* what parseUrlState returned for urlParam (Pending: not called)
  now,           \* the clock Date.now() reads
  ensureIn,      \* the batch last given to ensureQueries (Pending: not called)
  ensured,       \* the batch ensureQueries returned
  requests,      \* the requests still to be issued: a batch and its view each
  lastTxn,       \* the transaction buildQueryTransaction built last
  prevTxn,       \* the transaction it built before that one
  rawResult,     \* the raw results given to calculateResultsFromQueryTransactions
  rawType,       \* the result type given with them
  calculated,    \* what it returned (Pending: not called)
  transactions,  \* the pane's query transactions, in list order
  seriesCall,    \* the last call of makeTimeSeriesList and the colours it gave
  shown,         \* per transaction, the colours of its series on display
  history,       \* the history list the pane holds (the last one returned)
  store,         \* the persistent store: per datasource id, its history entry
  historyCall,   \* the last call of updateHistory or clearHistory
  calls,         \* how many calls of updateHistory were made
  panel,         \* the arguments of getExploreUrl
  pc,            \* where getExploreUrl stands
  targetIndex,   \* the target of panel.targets the loop is at
  elapsed,       \* the time the pending datasourceSrv.get has taken so far
  resolved,      \* the targets datasourceSrv.get was awaited for, in order
  mixedExploreDatasource,  \* the datasource the loop chose
  url            \* what getExploreUrl returned

urlVars == <<urlState, urlParam, urlSource, parsed>>
queryVars == <<ensureIn, ensured>>
txnVars == <<requests, lastTxn, prevTxn>>
resultVars == <<rawResult, rawType, calculated>>
seriesVars == <<transactions, seriesCall, shown>>
historyVars == <<history, store, historyCall, calls>>
exploreVars == <<panel, pc, targetIndex, elapsed, resolved, mixedExploreDatasource, url>>

vars == <<urlVars, now, queryVars, txnVars, resultVars, seriesVars, historyVars,
          exploreVars>>

\* What each component leaves alone.
notUrl == <<now, queryVars, txnVars, resultVars, seriesVars, historyVars, exploreVars>>
notQueries == <<urlVars, txnVars, resultVars, seriesVars, historyVars, exploreVars>>
notTxn == <<urlVars, now, queryVars, resultVars, seriesVars, historyVars, exploreVars>>
notResults == <<urlVars, now, queryVars, txnVars, seriesVars, historyVars, exploreVars>>
notSeries == <<urlVars, now, queryVars, txnVars, resultVars, historyVars, exploreVars>>
notHistory == <<urlVars, queryVars, txnVars, resultVars, seriesVars, exploreVars>>
notExplore == <<urlVars, now, queryVars, txnVars, resultVars, seriesVars, historyVars>>

(***************************************************************************)
(* JavaScript values.  Every value is a record tagged by its type, so that *)
(* values of different types can be compared.                              *)
(***************************************************************************)
Null == [t |-> "null"]
Undef == [t |-> "undefined"]
Bool(b) == [t |-> "bool", b |-> b]
Num(n) == [t |-> "num", n |-> n]
Str(s) == [t |-> "str", s |-> s]
Arr(a) == [t |-> "arr", a |-> a]
Obj(f) == [t |-> "obj", f |-> f]
EmptyObj == Obj([k \in {} |-> Null])
\* The outcome of a call that threw instead of returning.
Throw == [t |-> "throw"]
\* No call has been made yet.
Pending == [t |-> "pending"]

\* ToBoolean: what `!v`, `!!v` and `v ? a : b` test.
Truthy(v) ==
  CASE v.t = "null" -> FALSE
    [] v.t = "undefined" -> FALSE
    [] v.t = "bool" -> v.b
    [] v.t = "num" -> v.n # 0
    [] v.t = "str" -> v.s # ""
    [] OTHER -> TRUE

\* segment.hasOwnProperty(prop) for a property that is no index and not
\* "length": "throw" on null and undefined (a TypeError), "yes" or "no".
HasOwnProperty(v, prop) ==
  CASE v.t \in {"null", "undefined"} -> "throw"
    [] v.t = "obj" -> IF prop \in DOMAIN v.f THEN "yes" ELSE "no"
    [] OTHER -> "no"

\* v[i] for a zero-based index i, v an array, a number or a boolean:
\* Throw on null and undefined (a TypeError), undefined when there is no
\* such element.
Index(v, i) ==
  CASE v.t \in {"null", "undefined"} -> Throw
    [] v.t = "arr" -> IF i + 1 \in DOMAIN v.a THEN v.a[i + 1] ELSE Undef
    [] v.t \in {"num", "bool"} -> Undef

\* o.k for an object o: undefined when o has no such property.
Get(o, k) == IF k \in DOMAIN o.f THEN o.f[k] ELSE Undef

(***************************************************************************)
(* Texts.  A text that is the JSON serialization of a value is modelled by *)
(* that value; the other texts are the absent parameter, the empty string  *)
(* and a text that is no JSON ('not json').                                *)
(***************************************************************************)
AbsentText == [k |-> "absent"]
EmptyText == [k |-> "empty"]
GarbageText == [k |-> "garbage"]
JsonText(v) == [k |-> "json", v |-> v]

\* JSON.stringify followed by JSON.parse: undefined becomes null inside an
\* array and drops the property inside an object.
RECURSIVE JsonValue(_)
JsonValue(v) ==
  CASE v.t = "arr" ->
         Arr([i \in DOMAIN v.a |->
                IF v.a[i].t = "undefined" THEN Null ELSE JsonValue(v.a[i])])
    [] v.t = "obj" ->
         Obj([k \in {k \in DOMAIN v.f : v.f[k].t # "undefined"} |->
                JsonValue(v.f[k])])
    [] OTHER -> v

JSONstringify(v) == JsonText(JsonValue(v))

\* decodeURI on the strings of the model: "%41" is the escape of "A", and a
\* "%" that starts no escape makes decodeURI throw a URIError.
MalformedUri(s) == s = "50%"
DecodeStr(s) == IF s = "a%41" THEN "aA" ELSE s

RECURSIVE UriThrows(_)
UriThrows(v) ==
  CASE v.t = "str" -> MalformedUri(v.s)
    [] v.t = "arr" -> \E i \in DOMAIN v.a : UriThrows(v.a[i])
    [] v.t = "obj" -> \E k \in DOMAIN v.f : UriThrows(v.f[k])
    [] OTHER -> FALSE

RECURSIVE DecodeURI(_)
DecodeURI(v) ==
  CASE v.t = "str" -> Str(DecodeStr(v.s))
    [] v.t = "arr" -> Arr([i \in DOMAIN v.a |-> DecodeURI(v.a[i])])
    [] v.t = "obj" -> Obj([k \in DOMAIN v.f |-> DecodeURI(v.f[k])])
    [] OTHER -> v

(***************************************************************************)
(* UrlStateCodec                                                           *)
(***************************************************************************)
DEFAULT_RANGE == Obj([k \in {"from", "to"} |->
                        IF k = "from" THEN Str("now-6h") ELSE Str("now")])

DEFAULT_UI_STATE ==
  Obj([k \in {"showingTable", "showingGraph", "showingLogs", "dedupStrategy"} |->
         IF k = "dedupStrategy" THEN Str("none") ELSE Bool(TRUE)])

metricProperties == {"expr", "target", "datasource"}

isMetricSegment(segment) ==
  IF HasOwnProperty(segment, "expr") = "throw" THEN "throw"
  ELSE IF \E prop \in metricProperties : HasOwnProperty(segment, prop) = "yes"
       THEN "yes" ELSE "no"

isUISegment(segment) == HasOwnProperty(segment, "ui")

\* The text is falsy (absent or empty): undefined.  Otherwise
\* JSON.parse(decodeURI(text)), and undefined when either throws.
safeParseJson(text) ==
  IF text.k \in {"absent", "empty"} THEN Undef
  ELSE IF text.k = "garbage" THEN Undef
  ELSE IF UriThrows(text.v) THEN Undef
  ELSE DecodeURI(text.v)

MakeSessionState(datasource, queries, range, ui) ==
  Obj([k \in {"datasource", "queries", "range", "ui"} |->
         CASE k = "datasource" -> datasource
           [] k = "queries" -> queries
           [] k = "range" -> range
           [] k = "ui" -> ui])

MakeRange(from, to) ==
  Obj([k \in {"from", "to"} |-> IF k = "from" THEN from ELSE to])

MakeUi(graph, logs, table, strategy) ==
  Obj([k \in {"showingGraph", "showingLogs", "showingTable", "dedupStrategy"} |->
         CASE k = "showingGraph" -> graph
           [] k = "showingLogs" -> logs
           [] k = "showingTable" -> table
           [] k = "dedupStrategy" -> strategy])

errorResult == MakeSessionState(Null, Arr(<<>>), DEFAULT_RANGE, DEFAULT_UI_STATE)

SegmentsStart == 3

parseUrlState(initial) ==
  LET parsedJson == safeParseJson(initial) IN
  IF ~Truthy(parsedJson) THEN errorResult
  ELSE IF parsedJson.t # "arr" THEN parsedJson
  ELSE IF Len(parsedJson.a) <= SegmentsStart THEN errorResult
  ELSE
    LET range == MakeRange(parsedJson.a[1], parsedJson.a[2])
        datasource == parsedJson.a[3]
        parsedSegments == SubSeq(parsedJson.a, SegmentsStart + 1, Len(parsedJson.a))
        filterThrows ==
          \E i \in DOMAIN parsedSegments :
            HasOwnProperty(parsedSegments[i], "expr") = "throw"
        queries == SelectSeq(parsedSegments, LAMBDA seg : isMetricSegment(seg) = "yes")
        uiSegments == SelectSeq(parsedSegments, LAMBDA seg : isUISegment(seg) = "yes")
        uiState == IF uiSegments = <<>> THEN Undef ELSE uiSegments[1]
    IN
    IF filterThrows THEN Throw
    ELSE IF ~Truthy(uiState)
         THEN MakeSessionState(datasource, Arr(queries), range, DEFAULT_UI_STATE)
    ELSE IF Index(Get(uiState, "ui"), 0) = Throw THEN Throw
    ELSE MakeSessionState(datasource, Arr(queries), range,
           MakeUi(Index(Get(uiState, "ui"), 0), Index(Get(uiState, "ui"), 1),
                  Index(Get(uiState, "ui"), 2), Index(Get(uiState, "ui"), 3)))

serializeStateToUrlParam(state, compact) ==
  IF compact
  THEN JSONstringify(Arr(
         <<Get(Get(state, "range"), "from"),
           Get(Get(state, "range"), "to"),
           Get(state, "datasource")>>
         \o Get(state, "queries").a
         \o <<Obj([k \in {"ui"} |-> Arr(
                <<Bool(Truthy(Get(Get(state, "ui"), "showingGraph"))),
                  Bool(Truthy(Get(Get(state, "ui"), "showingLogs"))),
                  Bool(Truthy(Get(Get(state, "ui"), "showingTable"))),
                  Get(Get(state, "ui"), "dedupStrategy")>>)])>>))
  ELSE JSONstringify(state)


(***************************************************************************)
(* The idle values of the components a specification leaves alone.         *)
(***************************************************************************)
Idle == [t |-> "idle"]
IdleClock == now = 1
IdleQueries == ensureIn = Pending /\ ensured = Pending
IdleTxn == requests = <<>> /\ lastTxn = Pending /\ prevTxn = Pending
IdleResults == rawResult = Pending /\ rawType = "Graph" /\ calculated = Pending
IdleSeries == transactions = <<>> /\ seriesCall = Pending /\ shown = <<>>
IdleHistory == history = <<>> /\ store = Idle /\ historyCall = Pending /\ calls = 0
IdleExplore ==
  /\ panel = Idle
  /\ pc = "idle"
  /\ targetIndex = 0
  /\ elapsed = 0
  /\ resolved = <<>>
  /\ mixedExploreDatasource = Undef
  /\ url = Pending

(***************************************************************************)
(* The inputs of the codec: the session states a pane can hold and the     *)
(* texts a user can put in the URL.                                        *)
(***************************************************************************)
MaxQueries == 2
MaxSegments == 2

Obj1(k1, v1) == Obj([k \in {k1} |-> v1])
Obj2(k1, v1, k2, v2) == Obj([k \in {k1, k2} |-> IF k = k1 THEN v1 ELSE v2])

\* Queries of datasources: Prometheus (expr), Graphite (target), and one
\* whose query text is held in another field than the metric properties.
QueryPool ==
  { Obj1("expr", Str("up")),
    Obj1("expr", Str("a%41")),
    Obj1("expr", Str("50%")),
    Obj2("refId", Str("A"), "query", Str("foo")),
    Obj2("target", Str("cpu"), "ui", Arr(<<Bool(FALSE)>>)) }

SeqsUpTo(S, n) == UNION {[1..m -> S] : m \in 0..n}

SessionStates ==
  { MakeSessionState(ds, Arr(qs), MakeRange(Str(from), Str("now")),
                     MakeUi(Bool(g), Bool(l), Bool(tb), Str(dedup))) :
      ds \in {Null, Str("Prometheus")},
      qs \in SeqsUpTo(QueryPool, MaxQueries),
      from \in {"now-1h"},
      g \in BOOLEAN, l \in BOOLEAN, tb \in BOOLEAN,
      dedup \in {"exact"} }

\* What may follow the three header positions of a compact array.
SegmentPool ==
  { Null,
    Num(5),
    Obj1("expr", Str("up")),
    Obj1("ui", Arr(<<Bool(TRUE), Bool(FALSE), Bool(TRUE), Num(0)>>)),
    Obj1("ui", Arr(<<Bool(TRUE)>>)),
    Obj1("ui", Null),
    Obj1("ui", Num(0)) }

UrlHeader == <<Str("now-1h"), Str("now"), Str("Prometheus")>>

UserTexts ==
  {AbsentText, EmptyText, GarbageText}
  \cup {JsonText(v) : v \in {Null, Num(5), Str("now"), Obj1("a", Num(1))}}
  \cup {JsonText(Arr(SubSeq(UrlHeader, 1, n))) : n \in 0..3}
  \cup {JsonText(Arr(UrlHeader \o segs)) : segs \in SeqsUpTo(SegmentPool, MaxSegments)}

InitUrl ==
  /\ urlState \in SessionStates
  /\ urlParam = AbsentText
  /\ urlSource = "none"
  /\ parsed = Pending
  /\ IdleClock /\ IdleQueries /\ IdleTxn /\ IdleResults /\ IdleSeries
  /\ IdleHistory /\ IdleExplore

IdleUrl ==
  /\ urlState = errorResult
  /\ urlParam = AbsentText
  /\ urlSource = "none"
  /\ parsed = Pending

\* The pane writes its state to the URL in the compact form.
SerializeCompact ==
  /\ urlParam' = serializeStateToUrlParam(urlState, TRUE)
  /\ urlSource' = "compact"
  /\ parsed' = Pending
  /\ UNCHANGED <<urlState, notUrl>>

\* The pane writes its state to the URL in the full form.
SerializeFull ==
  /\ urlParam' = serializeStateToUrlParam(urlState, FALSE)
  /\ urlSource' = "full"
  /\ parsed' = Pending
  /\ UNCHANGED <<urlState, notUrl>>

\* The user opens a URL of their own.
NavigateTo ==
  /\ \E text \in UserTexts : urlParam' = text
  /\ urlSource' = "user"
  /\ parsed' = Pending
  /\ UNCHANGED <<urlState, notUrl>>

ParseUrl ==
  /\ parsed = Pending
  /\ parsed' = parseUrlState(urlParam)
  /\ UNCHANGED <<urlState, urlParam, urlSource, notUrl>>

NextUrl == SerializeCompact \/ SerializeFull \/ NavigateTo \/ ParseUrl

\* A value has the shape of a SessionState.
ValidSessionState(v) ==
  /\ v.t = "obj"
  /\ DOMAIN v.f = {"datasource", "queries", "range", "ui"}
  /\ v.f["datasource"].t \in {"null", "str"}
  /\ v.f["queries"].t = "arr"
  /\ v.f["range"].t = "obj"
  /\ {"from", "to"} \subseteq DOMAIN v.f["range"].f
  /\ v.f["ui"].t = "obj"
  /\ DOMAIN v.f["ui"].f = {"showingGraph", "showingLogs", "showingTable", "dedupStrategy"}
  /\ \A k \in DOMAIN v.f["ui"].f : v.f["ui"].f[k].t # "undefined"

\* parseUrlState rejects the text: nothing parses, or the array is too short.
Rejected(text) ==
  \/ text.k # "json"
  \/ UriThrows(text.v)
  \/ ~Truthy(text.v)
  \/ text.v.t = "arr" /\ Len(text.v.a) <= SegmentsStart

\* C1: parsing the compact serialization of a session state gives back its
\* range, its datasource, exactly its queries in their order, and its ui.
C1_CompactRoundTrip ==
  (urlSource = "compact" /\ parsed # Pending) =>
    /\ parsed.t = "obj"
    /\ {"datasource", "queries", "range", "ui"} \subseteq DOMAIN parsed.f
    /\ Get(parsed, "range").t = "obj"
    /\ Get(Get(parsed, "range"), "from") = Get(Get(urlState, "range"), "from")
    /\ Get(Get(parsed, "range"), "to") = Get(Get(urlState, "range"), "to")
    /\ Get(parsed, "datasource") = Get(urlState, "datasource")
    /\ Get(parsed, "queries") = Get(urlState, "queries")
    /\ Get(parsed, "ui") = Get(urlState, "ui")

\* C4: parseUrlState is total: whatever the text, it returns (it never
\* throws) a value with the shape of a SessionState, and the full default
\* state whenever it rejects the text.
C4_ParseTotal ==
  parsed # Pending =>
    /\ parsed # Throw
    /\ ValidSessionState(parsed)
    /\ Rejected(urlParam) => parsed = errorResult

SpecUrl == InitUrl /\ [][NextUrl]_vars

(***************************************************************************)
(* QueryKeyAllocator.  A key is a string whose characters matter (keys are *)
(* concatenated), so it is modelled as the sequence of its characters.     *)
(***************************************************************************)
StrC(chars) == [t |-> "str", c |-> chars]

DigitChars == <<"0", "1", "2", "3", "4", "5", "6", "7", "8", "9">>

\* The decimal digits of a natural number: `${n}`.
RECURSIVE Digits(_)
Digits(n) ==
  IF n < 10 THEN <<DigitChars[n + 1]>>
  ELSE Digits(n \div 10) \o <<DigitChars[(n % 10) + 1]>>

\* What Math.random() may print as.
RandPool == {<<"0", ".", "5">>, <<"0", ".", "5", "1">>}

\* generateKey(index) when Date.now() reads ts and Math.random() gives rand.
generateKey(ts, rand, index) ==
  StrC(<<"Q", "-">> \o Digits(ts) \o <<"-">> \o rand \o <<"-">> \o Digits(index))

Letters == <<"A", "B", "C", "D", "E", "F", "G", "H", "I", "J", "K", "L", "M",
             "N", "O", "P", "Q", "R", "S", "T", "U", "V", "W", "X", "Y", "Z">>

\* getNextRefIdChar(queries): the first letter no query of the batch carries
\* as refId, undefined when all are taken.  The batch may be absent.
getNextRefIdChar(batch) ==
  LET used == IF batch.t = "arr"
              THEN {Get(batch.a[i], "refId") : i \in DOMAIN batch.a}
              ELSE {}
      free == {i \in DOMAIN Letters : Str(Letters[i]) \notin used}
  IN IF free = {} THEN Undef
     ELSE Str(Letters[CHOOSE i \in free : \A j \in free : i <= j])

\* { ...query, refId, key }
WithRefIdAndKey(query, refId, key) ==
  Obj([k \in DOMAIN query.f \cup {"refId", "key"} |->
         CASE k = "refId" -> refId
           [] k = "key" -> key
           [] OTHER -> query.f[k]])

generateEmptyQuery(batch, ts, rand, index) ==
  Obj2("refId", getNextRefIdChar(batch), "key", generateKey(ts, rand, index))

\* The loop of ensureQueries over batch[index..], allQueries being the
\* queries pushed so far; rands[i] is what Math.random() gives for query i.
RECURSIVE EnsureLoop(_, _, _, _, _)
EnsureLoop(batch, index, allQueries, ts, rands) ==
  IF index > Len(batch) THEN allQueries
  ELSE
    LET query == batch[index]
        key == generateKey(ts, rands[index], index - 1)
        refId == IF ~Truthy(Get(query, "refId"))
                 THEN getNextRefIdChar(Arr(allQueries))
                 ELSE Get(query, "refId")
    IN EnsureLoop(batch, index + 1,
                  Append(allQueries, WithRefIdAndKey(query, refId, key)), ts, rands)

ensureQueries(batch, ts, rands) ==
  IF Truthy(batch) /\ batch.t = "arr" /\ Len(batch.a) > 0
  THEN Arr(EnsureLoop(batch.a, 1, <<>>, ts, rands))
  ELSE Arr(<<generateEmptyQuery(batch, ts, rands[1], 0)>>)

MaxBatch == 2
MaxNow == 2

\* The queries a caller may hand in: with or without a refId, which may be
\* empty, and with the datasource's own fields.
InputQueries ==
  {Obj1("expr", Str("up"))}
  \cup {Obj2("expr", Str("up"), "refId", r) : r \in {Str(""), Str("A"), Str("B")}}

InputBatches == {Undef} \cup {Arr(qs) : qs \in SeqsUpTo(InputQueries, MaxBatch)}

InitQueries ==
  /\ ensureIn = Pending
  /\ ensured = Pending
  /\ now = 1
  /\ IdleUrl /\ IdleTxn /\ IdleResults /\ IdleSeries /\ IdleHistory /\ IdleExplore

EnsureQueries ==
  /\ \E batch \in InputBatches :
     \E rands \in [1..(IF batch.t = "arr" /\ Len(batch.a) > 0 THEN Len(batch.a) ELSE 1)
                     -> RandPool] :
       /\ ensureIn' = batch
       /\ ensured' = ensureQueries(batch, now, rands)
  /\ UNCHANGED <<now, notQueries>>

\* Time passes.
TickQueries ==
  /\ now < MaxNow
  /\ now' = now + 1
  /\ UNCHANGED <<queryVars, notQueries>>

NextQueries == EnsureQueries \/ TickQueries

SpecQueries == InitQueries /\ [][NextQueries]_vars

\* C2: the refIds of the batch ensureQueries returns are non-empty and
\* pairwise distinct, whatever refIds the input batch carries.
C2_RefIdsDistinct ==
  ensured # Pending =>
    /\ \A i \in DOMAIN ensured.a : Truthy(Get(ensured.a[i], "refId"))
    /\ \A i, j \in DOMAIN ensured.a :
         i # j => Get(ensured.a[i], "refId") # Get(ensured.a[j], "refId")

(***************************************************************************)
(* QueryTransactionBuilder                                                 *)
(***************************************************************************)
\* String(v) for a key: a missing key is concatenated as "undefined".
KeyText(key) ==
  IF key.t = "undefined" THEN <<"u", "n", "d", "e", "f", "i", "n", "e", "d">>
  ELSE key.c

\* queries.reduce((combinedKey, query) => combinedKey += query.key, ...)
RECURSIVE CombinedKey(_, _)
CombinedKey(batch, combinedKey) ==
  IF batch = <<>> THEN combinedKey
  ELSE CombinedKey(Tail(batch), combinedKey \o KeyText(Get(Head(batch), "key")))

\* { ...query, ...queryOptions }
Merge(query, queryOptions) ==
  Obj([k \in DOMAIN query.f \cup DOMAIN queryOptions.f |->
         IF k \in DOMAIN queryOptions.f THEN queryOptions.f[k] ELSE query.f[k]])

\* buildQueryTransaction, of which the model keeps the options that depend
\* on the batch: panelId and targets.  The format is one token of panelId.
buildQueryTransaction(batch, resultType, queryOptions, scanning, ts, rand) ==
  LET configuredQueries == [i \in DOMAIN batch |-> Merge(batch[i], queryOptions)]
      key == CombinedKey(batch, <<>>)
      panelId == <<Get(queryOptions, "format").s, "-">> \o key
  IN [ queries |-> batch,
       options |-> [panelId |-> panelId, targets |-> configuredQueries],
       resultType |-> resultType,
       scanning |-> scanning,
       id |-> generateKey(ts, rand, 0),
       done |-> FALSE,
       latency |-> 0 ]

TxnMaxBatch == 2

\* The keys a query can carry: keys generateKey made, other strings (key is
\* any string of a DataQuery), or none.
TxnKeys ==
  {Undef, StrC(<<"a">>), StrC(<<"b">>), StrC(<<"a", "b">>),
   generateKey(1, <<"0", ".", "5">>, 0), generateKey(12, <<"0", ".", "5">>, 1)}

TxnBatches ==
  { [i \in DOMAIN keys |->
       IF keys[i] = Undef THEN Obj1("expr", Str("up"))
       ELSE Obj2("expr", Str("up"), "key", keys[i])] :
    keys \in SeqsUpTo(TxnKeys, TxnMaxBatch) }

\* The view a request is for: its result type and the format it asks for.
TxnViews ==
  { [resultType |-> "Graph", queryOptions |-> Obj1("format", Str("time_series"))],
    [resultType |-> "Table", queryOptions |-> Obj1("format", Str("table"))] }

TxnRequests == [batch : TxnBatches, view : TxnViews]

InitTxn ==
  /\ requests \in [1..2 -> TxnRequests]
  /\ lastTxn = Pending
  /\ prevTxn = Pending
  /\ now = 1
  /\ IdleUrl /\ IdleQueries /\ IdleResults /\ IdleSeries /\ IdleHistory /\ IdleExplore

\* The pane issues its next request.
BuildQueryTransaction ==
  /\ requests # <<>>
  /\ lastTxn' = buildQueryTransaction(Head(requests).batch,
                   Head(requests).view.resultType, Head(requests).view.queryOptions,
                   FALSE, now, <<"0", ".", "7">>)
  /\ prevTxn' = lastTxn
  /\ requests' = Tail(requests)
  /\ UNCHANGED <<now, notTxn>>

NextTxn == BuildQueryTransaction

SpecTxn == InitTxn /\ [][NextTxn]_vars

KeysOf(txn) == [i \in DOMAIN txn.queries |-> Get(txn.queries[i], "key")]
FormatOf(txn) == txn.options.panelId[1]

RECURSIVE FlattenSeq(_)
FlattenSeq(s) ==
  IF s = <<>> THEN <<>>
  ELSE (IF Head(s).t = "arr" THEN Head(s).a ELSE <<Head(s)>>) \o FlattenSeq(Tail(s))

Flatten(v) == IF v.t = "arr" THEN FlattenSeq(v.a) ELSE <<>>

\* The graph result taken from the flattened results.
GraphResultFlattened(result, resultType) ==
  IF resultType = "Graph" /\ Truthy(result) THEN Arr(Flatten(result)) ELSE Null

\* resultType === 'Graph' && result ? result : null
GraphResult(result, resultType) ==
  IF resultType = "Graph" /\ Truthy(result) THEN result ELSE Null

\* r.columns && r.rows
IsTabular(r) ==
  /\ r.t = "obj"
  /\ Truthy(Get(r, "columns"))
  /\ Truthy(Get(r, "rows"))

\* calculateResultsFromQueryTransactions.  The table and logs models are built
\* by collaborators: the model keeps what is handed to them.
calculateResultsFromQueryTransactions(result, resultType) ==
  LET flattenedResult == Flatten(result) IN
  [ graphResult |-> GraphResult(result, resultType),
    tableResult |->
      IF resultType = "Table" /\ Truthy(result)
      THEN Arr(SelectSeq(flattenedResult, IsTabular))
      ELSE Arr(<<>>),
    logsResult |->
      IF resultType = "Logs" /\ Truthy(result) THEN Arr(flattenedResult) ELSE Null ]

MaxInner == 2
MaxOuter == 2

\* What a query returns: series, or a table.
ResultItems ==
  { Obj1("target", Str("cpu")),
    Obj2("columns", Arr(<<Str("Time")>>), "rows", Arr(<<Arr(<<Num(1)>>)>>)) }

\* The raw results: absent, or per query a collection of items or one item.
RawResults ==
  {Undef, Null}
  \cup { Arr(outer) :
           outer \in SeqsUpTo({Arr(inner) : inner \in SeqsUpTo(ResultItems, MaxInner)}
                               \cup ResultItems, MaxOuter) }

ResultTypes == {"Graph", "Table", "Logs"}

InitResults ==
  /\ rawResult \in RawResults
  /\ rawType \in ResultTypes
  /\ calculated = Pending
  /\ IdleClock /\ IdleUrl /\ IdleQueries /\ IdleTxn /\ IdleSeries /\ IdleHistory
  /\ IdleExplore

CalculateResults ==
  /\ calculated = Pending
  /\ calculated' = calculateResultsFromQueryTransactions(rawResult, rawType)
  /\ UNCHANGED <<rawResult, rawType, notResults>>

NextResults == CalculateResults

SpecResults == InitResults /\ [][NextResults]_vars

\* C8, as claimed: the graph result is the raw results flattened by one
\* level for result type Graph, and null for another type or absent results.
C8_GraphResultFlattened ==
  calculated # Pending =>
    calculated.graphResult =
      IF rawType = "Graph" /\ rawResult \notin {Undef, Null}
      THEN Arr(Flatten(rawResult)) ELSE Null

\* C8, amended: the graph result is the raw results as they were given, their
\* nesting kept, for result type Graph, and null for another type or absent
\* results.
C8_GraphResultUnchanged ==
  calculated # Pending =>
    calculated.graphResult =
      IF rawType = "Graph" /\ rawResult \notin {Undef, Null}
      THEN rawResult ELSE Null

\* Graph results of two queries, nested per query, were aggregated.
C8_Witness ==
  /\ calculated # Pending
  /\ rawType = "Graph"
  /\ rawResult.t = "arr"
  /\ Len(rawResult.a) = 2
  /\ \A i \in 1..2 : rawResult.a[i].t = "arr" /\ Len(rawResult.a[i].a) = 2
  /\ calculated.graphResult = rawResult
  /\ calculated.graphResult # Arr(Flatten(rawResult))

(***************************************************************************)
(* ColorAssigner.  A transaction is a record with an id (its identity), a  *)
(* result type, done, and its result once it is done.  A colour is its     *)
(* index in the palette.                                                   *)
(***************************************************************************)
PaletteSize == 7
MaxTxns == 3
MaxSeries == 3

\* The offset loop without the test of the result type.
RECURSIVE ColorIndexOffsetAnyType(_, _, _)
ColorIndexOffsetAnyType(allTransactions, transaction, colorIndexOffset) ==
  IF allTransactions = <<>> THEN colorIndexOffset
  ELSE LET other == Head(allTransactions) IN
       IF other.id = transaction.id THEN colorIndexOffset
       ELSE ColorIndexOffsetAnyType(Tail(allTransactions), transaction,
              IF other.done
              THEN colorIndexOffset + Len(other.result.a)
              ELSE colorIndexOffset)

\* The loop over allTransactions: it stops at the current transaction and
\* counts the series of the Graph transactions that are done.
RECURSIVE ColorIndexOffset(_, _, _)
ColorIndexOffset(allTransactions, transaction, colorIndexOffset) ==
  IF allTransactions = <<>> THEN colorIndexOffset
  ELSE LET other == Head(allTransactions) IN
       IF other.id = transaction.id THEN colorIndexOffset
       ELSE ColorIndexOffset(Tail(allTransactions), transaction,
              IF other.resultType = "Graph" /\ other.done
              THEN colorIndexOffset + Len(other.result.a)
              ELSE colorIndexOffset)

makeTimeSeriesList(dataList, transaction, allTransactions) ==
  LET colorIndexOffset == ColorIndexOffset(allTransactions, transaction, 0) IN
  [ index \in DOMAIN dataList |->
      [ datapoints |-> IF Truthy(Get(dataList[index], "datapoints"))
                       THEN Get(dataList[index], "datapoints") ELSE Arr(<<>>),
        alias |-> Get(dataList[index], "target"),
        color |-> (colorIndexOffset + (index - 1)) % PaletteSize,
        unit |-> Get(dataList[index], "unit") ] ]

\* The data of n series, as a datasource returns them.
SeriesData(n) ==
  [ i \in 1..n |->
      IF i % 2 = 1 THEN Obj2("target", Str("cpu"), "datapoints", Arr(<<Num(1)>>))
      ELSE Obj1("target", Str("mem")) ]

Transaction(id, resultType, done, result) ==
  [id |-> id, resultType |-> resultType, done |-> done, result |-> result]

\* What a transaction of the list can look like: running, or done with the
\* series (or the table) it got.
TxnShapes ==
  [resultType : {"Graph", "Table"}, done : {FALSE}, result : {Undef}]
  \cup [resultType : {"Graph", "Table"}, done : {TRUE},
        result : {Arr(SeriesData(n)) : n \in 1..MaxSeries}]

TxnLists ==
  { [i \in DOMAIN shapes |->
       Transaction(i, shapes[i].resultType, shapes[i].done, shapes[i].result)] :
    shapes \in SeqsUpTo(TxnShapes, MaxTxns) }

InitSeries ==
  /\ transactions \in TxnLists
  /\ seriesCall = Pending
  /\ shown = <<>>
  /\ IdleClock /\ IdleUrl /\ IdleQueries /\ IdleTxn /\ IdleResults /\ IdleHistory
  /\ IdleExplore

\* makeTimeSeriesList is run for a transaction of the list, or for one that
\* is not in it, with the data of up to MaxSeries series.
MakeTimeSeriesList ==
  /\ seriesCall = Pending
  /\ \E id \in 1..(Len(transactions) + 1), n \in 0..MaxSeries :
       LET transaction ==
             IF id <= Len(transactions) THEN transactions[id]
             ELSE Transaction(id, "Graph", FALSE, Undef)
       IN seriesCall' =
            [ transaction |-> transaction,
              dataList |-> SeriesData(n),
              series |-> makeTimeSeriesList(SeriesData(n), transaction, transactions) ]
  /\ UNCHANGED <<transactions, shown, notSeries>>

NextSeries == MakeTimeSeriesList

SpecSeries == InitSeries /\ [][NextSeries]_vars

\* The transactions of the list that come strictly before the transaction
\* of the given id (all of them when it is not in the list).
Before(list, id) ==
  {j \in DOMAIN list : \A k \in 1..j : list[k].id # id}

RECURSIVE SumOver(_, _)
SumOver(S, f) ==
  IF S = {} THEN 0
  ELSE LET x == CHOOSE x \in S : TRUE IN f[x] + SumOver(S \ {x}, f)

\* The series count of the done Graph transactions before the given one.
PriorSeries(list, id) ==
  SumOver({j \in Before(list, id) : list[j].resultType = "Graph" /\ list[j].done},
          [j \in DOMAIN list |-> IF list[j].done THEN Len(list[j].result.a) ELSE 0])

\* C6: series i of dataList (counted from 0) gets the colour
\* (offset + i) mod paletteSize, offset being the number of series of the
\* done Graph transactions strictly before the current one in the list.
C6_ColourOffset ==
  seriesCall # Pending =>
    /\ Len(seriesCall.series) = Len(seriesCall.dataList)
    /\ \A i \in DOMAIN seriesCall.series :
         seriesCall.series[i].color =
           (PriorSeries(transactions, seriesCall.transaction.id) + (i - 1)) % PaletteSize

\* Two done Graph transactions with 2 and 3 series come before the current
\* one, whose first series gets colour 5 mod paletteSize.
C6_Witness ==
  /\ seriesCall # Pending
  /\ Len(transactions) = 3
  /\ seriesCall.transaction.id = 3
  /\ \A j \in 1..2 : transactions[j].resultType = "Graph" /\ transactions[j].done
  /\ Len(transactions[1].result.a) = 2
  /\ Len(transactions[2].result.a) = 3
  /\ Len(seriesCall.series) > 0
  /\ seriesCall.series[1].color = 5 % PaletteSize

(***************************************************************************)
(* Several result sets on display: the transactions of the pane get done   *)
(* in any order, and the series of a done transaction are made (and made   *)
(* again) by makeTimeSeriesList from its result.                           *)
(***************************************************************************)
RunningLists ==
  { [i \in DOMAIN types |-> Transaction(i, types[i], FALSE, Undef)] :
    types \in SeqsUpTo({"Graph", "Table"}, MaxTxns) }

InitColors ==
  /\ transactions \in RunningLists
  /\ shown = [i \in DOMAIN transactions |-> <<>>]
  /\ seriesCall = Pending
  /\ IdleClock /\ IdleUrl /\ IdleQueries /\ IdleTxn /\ IdleResults /\ IdleHistory
  /\ IdleExplore

\* The execution layer marks a transaction done, with the result it got.
TransactionDone ==
  /\ \E i \in DOMAIN transactions, n \in 1..MaxSeries :
       /\ ~transactions[i].done
       /\ transactions' =
            [transactions EXCEPT ![i] =
               Transaction(i, transactions[i].resultType, TRUE, Arr(SeriesData(n)))]
  /\ UNCHANGED <<shown, seriesCall, notSeries>>

\* The series of a done Graph transaction are made from its result.
ShowSeries ==
  /\ \E i \in DOMAIN transactions :
       /\ transactions[i].done
       /\ transactions[i].resultType = "Graph"
       /\ shown' = [shown EXCEPT ![i] =
            makeTimeSeriesList(transactions[i].result.a, transactions[i], transactions)]
  /\ UNCHANGED <<transactions, seriesCall, notSeries>>

NextColors == TransactionDone \/ ShowSeries

SpecColors == InitColors /\ [][NextColors]_vars

TotalSeries ==
  SumOver(DOMAIN transactions,
          [j \in DOMAIN transactions |->
             IF transactions[j].done THEN Len(transactions[j].result.a) ELSE 0])

\* C10: when all transactions are Graph transactions, all are done and on
\* display, and they have no more series than the palette has colours, no two
\* series on display have the same colour.
C10_NoColourCollision ==
  ( /\ \A i \in DOMAIN transactions :
         /\ transactions[i].resultType = "Graph"
         /\ transactions[i].done
         /\ shown[i] # <<>>
    /\ TotalSeries <= PaletteSize )
  => \A i, j \in DOMAIN transactions :
       \A a \in DOMAIN shown[i], b \in DOMAIN shown[j] :
         (i # j \/ a # b) => shown[i][a].color # shown[j][b].color

(***************************************************************************)
(* HistoryStore.  A history is a sequence of items [query, ts], the newest *)
(* first; the store holds one entry per datasource id.                     *)
(***************************************************************************)
MAX_HISTORY_ITEMS == 100

HistoryItem(query, ts) == [query |-> query, ts |-> ts]

\* Each query of batch[lo..hi] is put behind the ones added before it.
RECURSIVE AppendQueries(_, _, _, _, _)
AppendQueries(hist, batch, lo, hi, ts) ==
  IF lo > hi \/ Len(hist) < 0 THEN hist
  ELSE IF lo = hi THEN SubSeq(hist, 1, lo - 1) \o <<HistoryItem(batch[lo], ts)>>
                       \o SubSeq(hist, lo, Len(hist))
  ELSE AppendQueries(AppendQueries(hist, batch, lo, (lo + hi) \div 2, ts),
                     batch, ((lo + hi) \div 2) + 1, hi, ts)

\* queries.forEach(query => { history = [{ query, ts }, ...history]; }) for
\* the queries batch[lo..hi]: the turns of the loop for the first half of
\* them, then those for the second half.  (Len(hist) < 0 never holds: the
\* test makes TLC evaluate hist before it goes on, which keeps the
\* evaluation shallow for a long batch.)
RECURSIVE PrependQueries(_, _, _, _, _)
PrependQueries(hist, batch, lo, hi, ts) ==
  IF lo > hi \/ Len(hist) < 0 THEN hist
  ELSE IF lo = hi THEN <<HistoryItem(batch[lo], ts)>> \o hist
  ELSE PrependQueries(PrependQueries(hist, batch, lo, (lo + hi) \div 2, ts),
                      batch, ((lo + hi) \div 2) + 1, hi, ts)

\* The limit is tested, and nothing is cut.
TruncateNever(hist) == hist

\* if (history.length > MAX_HISTORY_ITEMS) history = history.slice(0, MAX_HISTORY_ITEMS)
TruncateHistory(hist) ==
  IF Len(hist) > MAX_HISTORY_ITEMS THEN SubSeq(hist, 1, MAX_HISTORY_ITEMS) ELSE hist

\* What updateHistory returns, and stores, when Date.now() reads ts.
updateHistory(hist, batch, ts) ==
  TruncateHistory(PrependQueries(hist, batch, 1, Len(batch), ts))

historyKey(datasourceId) == <<"grafana.explore.history.", datasourceId>>

NoEntry == [present |-> FALSE, value |-> <<>>]
Entry(value) == [present |-> TRUE, value |-> value]

MaxCalls == 2
BigBatch == 101

DatasourceIds == {"prometheus", "loki"}
HistoryKeys == {historyKey(id) : id \in DatasourceIds}

\* The batches that are run: a few queries, or more than the history holds.
HistoryBatches == {[i \in 1..n |-> Obj1("expr", Num(i))] : n \in {1, 2, BigBatch}}

\* A history an earlier session left in the store: one item short of full.
OldHistory == [i \in 1..(MAX_HISTORY_ITEMS - 1) |-> HistoryItem(Obj1("expr", Num(0)), 0)]

InitHistory ==
  /\ history = <<>>
  /\ store \in [HistoryKeys -> {NoEntry, Entry(OldHistory)}]
  /\ historyCall = Pending
  /\ calls = 0
  /\ now = 1
  /\ IdleUrl /\ IdleQueries /\ IdleTxn /\ IdleResults /\ IdleSeries /\ IdleExplore

\* The histories a caller has at hand: the one returned last, the one the
\* store holds for the datasource, or none.
HistoriesAtHand(datasourceId) ==
  {history, store[historyKey(datasourceId)].value, <<>>}

UpdateHistory ==
  /\ calls < MaxCalls
  /\ \E datasourceId \in DatasourceIds, batch \in HistoryBatches :
       \E hist \in HistoriesAtHand(datasourceId) :
         LET returned == updateHistory(hist, batch, now) IN
         /\ store' = [store EXCEPT ![historyKey(datasourceId)] = Entry(returned)]
         /\ history' = returned
         /\ historyCall' = [ op |-> "update", history |-> hist,
                             datasourceId |-> datasourceId, queries |-> batch,
                             ts |-> now, returned |-> returned ]
  /\ calls' = calls + 1
  /\ UNCHANGED <<now, notHistory>>

ClearHistory ==
  /\ \E datasourceId \in DatasourceIds :
       /\ store[historyKey(datasourceId)].present
       /\ store' = [store EXCEPT ![historyKey(datasourceId)] = NoEntry]
       /\ historyCall' = [ op |-> "clear", history |-> <<>>,
                           datasourceId |-> datasourceId, queries |-> <<>>,
                           ts |-> now, returned |-> <<>> ]
  /\ UNCHANGED <<history, calls, now, notHistory>>

\* Time passes.
TickHistory ==
  /\ now < MaxNow
  /\ now' = now + 1
  /\ UNCHANGED <<historyVars, notHistory>>

NextHistory == UpdateHistory \/ ClearHistory \/ TickHistory

SpecHistory == InitHistory /\ [][NextHistory]_vars

\* C3: after every call of updateHistory the list returned has at most 100
\* items and is the list stored under the history key of the datasource id
\* given; no list held or stored ever has more than 100 items.
C3_HistoryBound ==
  /\ Len(history) <= MAX_HISTORY_ITEMS
  /\ \A key \in HistoryKeys : Len(store[key].value) <= MAX_HISTORY_ITEMS
  /\ (historyCall # Pending /\ historyCall.op = "update") =>
       /\ Len(historyCall.returned) <= MAX_HISTORY_ITEMS
       /\ store[historyKey(historyCall.datasourceId)] = Entry(historyCall.returned)

\* A batch of more than 100 queries was recorded and cut to 100 items, which
\* are the items stored.
C3_Witness ==
  /\ historyCall # Pending
  /\ historyCall.op = "update"
  /\ Len(historyCall.queries) > MAX_HISTORY_ITEMS
  /\ Len(historyCall.returned) = MAX_HISTORY_ITEMS
  /\ store[historyKey(historyCall.datasourceId)].value = historyCall.returned

Reverse(s) == [i \in DOMAIN s |-> s[Len(s) + 1 - i]]
FirstItems(s, n) == SubSeq(s, 1, IF Len(s) < n THEN Len(s) ELSE n)
\* No item is newer than the item before it.
NewestFirst(hist) == \A i \in 1..(Len(hist) - 1) : hist[i].ts >= hist[i + 1].ts

\* C9: the list updateHistory returns is the first 100 items of the batch's
\* queries in reverse input order, each with the one timestamp of the call,
\* followed by the input history; with calls chained (each given a list an
\* earlier call returned) the timestamps never increase from front to back.
C9_HistoryOrder ==
  /\ (historyCall # Pending /\ historyCall.op = "update") =>
       LET reversed == Reverse(historyCall.queries) IN
       historyCall.returned =
         FirstItems([i \in DOMAIN reversed |-> HistoryItem(reversed[i], historyCall.ts)]
                    \o historyCall.history, MAX_HISTORY_ITEMS)
  /\ NewestFirst(history)
  /\ \A key \in HistoryKeys : NewestFirst(store[key].value)

\* A batch of two queries was put in front of a history of 99 older items at
\* a later time: the newest of the old items stays, the oldest is cut.
C9_Witness ==
  /\ historyCall # Pending
  /\ historyCall.op = "update"
  /\ Len(historyCall.queries) = 2
  /\ Len(historyCall.history) = MAX_HISTORY_ITEMS - 1
  /\ historyCall.returned[1].query = historyCall.queries[2]
  /\ historyCall.returned[2].query = historyCall.queries[1]
  /\ historyCall.returned[3] = historyCall.history[1]
  /\ historyCall.returned[1].ts > historyCall.returned[3].ts
  /\ Len(historyCall.returned) = MAX_HISTORY_ITEMS

(***************************************************************************)
(* getExploreUrl.  The function runs from its call to its first await,     *)
(* and from the end of each await to the next one or to its return.        *)
(* panel holds its arguments: the targets (panel.targets and panelTargets  *)
(* are the same array), the panel's datasource, what datasourceSrv.get     *)
(* resolves each name to and after how long, and the range of timeSrv.     *)
(***************************************************************************)
MaxTargets == 3
MaxLatency == 1

Datasource(name, id, explore, hasExploreState) ==
  [ t |-> "obj", name |-> name, meta |-> [id |-> id, explore |-> explore],
    getExploreState |-> hasExploreState ]

DatasourceNames == {"prometheus", "graphite"}

\* What datasourceSrv.get may resolve a name to: nothing, or a datasource
\* that supports Explore or not, with or without getExploreState.
Resolutions(name) ==
  {Undef, Datasource(name, name, FALSE, FALSE), Datasource(name, name, TRUE, FALSE),
   Datasource(name, name, TRUE, TRUE)}

MixedDatasource == Datasource("-- Mixed --", "mixed", FALSE, FALSE)

PanelTargets ==
  { [i \in DOMAIN names |-> Obj2("refId", Str(Letters[i]), "datasource", Str(names[i]))] :
    names \in SeqsUpTo(DatasourceNames, MaxTargets) }

Panels ==
  { [ targets |-> targets, panelDatasource |-> ds, registry |-> registry,
      latency |-> latency, range |-> MakeRange(Str("now-6h"), Str("now")) ] :
    targets \in PanelTargets,
    ds \in {MixedDatasource, Datasource("prometheus", "prometheus", TRUE, FALSE)},
    registry \in {r \in [DatasourceNames -> UNION {Resolutions(n) : n \in DatasourceNames}] :
                    \A n \in DatasourceNames : r[n] \in Resolutions(n)},
    latency \in [DatasourceNames -> 0..MaxLatency] }

\* Lines 85-108: the targets of the chosen datasource, and the URL.
ExploreUrl(p, mixedDatasource) ==
  LET exploreDatasource == IF Truthy(mixedDatasource) THEN mixedDatasource
                           ELSE p.panelDatasource
      exploreTargets ==
        IF Truthy(mixedDatasource)
        THEN SelectSeq(p.targets,
                       LAMBDA tg : Get(tg, "datasource") = Str(mixedDatasource.name))
        ELSE p.targets
      state ==
        IF exploreDatasource.getExploreState
        THEN [ range |-> p.range,
               exploreState |-> [of |-> exploreDatasource.name, targets |-> exploreTargets] ]
        ELSE [ range |-> p.range,
               datasource |-> p.panelDatasource.name,
               queries |-> [i \in DOMAIN exploreTargets |->
                              Merge(exploreTargets[i],
                                    Obj1("datasource", Str(p.panelDatasource.name)))] ]
  IN [path |-> "/explore", left |-> state]

InitExplore ==
  /\ panel \in Panels
  /\ pc = "ready"
  /\ targetIndex = 0
  /\ elapsed = 0
  /\ resolved = <<>>
  /\ mixedExploreDatasource = Undef
  /\ url = Pending
  /\ IdleClock /\ IdleUrl /\ IdleQueries /\ IdleTxn /\ IdleResults /\ IdleSeries
  /\ IdleHistory

\* The call, up to the first `await datasourceSrv.get(t.datasource)`, or to
\* the return when there is nothing to await.
CallGetExploreUrl ==
  /\ pc = "ready"
  /\ IF panel.panelDatasource.meta.id = "mixed" /\ Len(panel.targets) > 0
     THEN /\ pc' = "await"
          /\ targetIndex' = 1
          /\ url' = url
     ELSE /\ pc' = "done"
          /\ targetIndex' = targetIndex
          /\ url' = ExploreUrl(panel, Undef)
  /\ UNCHANGED <<panel, elapsed, resolved, mixedExploreDatasource, notExplore>>

\* The pending datasourceSrv.get has not resolved yet.
WaitForDatasource ==
  /\ pc = "await"
  /\ elapsed < panel.latency[Get(panel.targets[targetIndex], "datasource").s]
  /\ elapsed' = elapsed + 1
  /\ UNCHANGED <<panel, pc, targetIndex, resolved, mixedExploreDatasource, url, notExplore>>

\* The loop without its break: it goes on to the next target after a match.
ResumeWithoutBreak ==
  /\ pc = "await"
  /\ elapsed = panel.latency[Get(panel.targets[targetIndex], "datasource").s]
  /\ LET datasource == panel.registry[Get(panel.targets[targetIndex], "datasource").s]
         match == Truthy(datasource) /\ datasource.meta.explore
         chosen == IF match THEN datasource ELSE mixedExploreDatasource
     IN /\ resolved' = Append(resolved, targetIndex)
        /\ mixedExploreDatasource' = chosen
        /\ IF targetIndex = Len(panel.targets)
           THEN /\ pc' = "done"
                /\ url' = ExploreUrl(panel, chosen)
                /\ targetIndex' = targetIndex
           ELSE /\ pc' = "await"
                /\ url' = url
                /\ targetIndex' = targetIndex + 1
  /\ elapsed' = 0
  /\ UNCHANGED <<panel, notExplore>>

\* The pending datasourceSrv.get resolves: the loop takes the datasource and
\* breaks when it supports Explore, and awaits the next target otherwise;
\* after the loop the function runs to its return.
ResumeGetExploreUrl ==
  /\ pc = "await"
  /\ elapsed = panel.latency[Get(panel.targets[targetIndex], "datasource").s]
  /\ LET datasource == panel.registry[Get(panel.targets[targetIndex], "datasource").s]
         match == Truthy(datasource) /\ datasource.meta.explore
         chosen == IF match THEN datasource ELSE mixedExploreDatasource
     IN /\ resolved' = Append(resolved, targetIndex)
        /\ mixedExploreDatasource' = chosen
        /\ IF match \/ targetIndex = Len(panel.targets)
           THEN /\ pc' = "done"
                /\ url' = ExploreUrl(panel, chosen)
                /\ targetIndex' = targetIndex
           ELSE /\ pc' = "await"
                /\ url' = url
                /\ targetIndex' = targetIndex + 1
  /\ elapsed' = 0
  /\ UNCHANGED <<panel, notExplore>>

NextExplore == CallGetExploreUrl \/ WaitForDatasource \/ ResumeGetExploreUrl

SpecExplore == InitExplore /\ [][NextExplore]_vars

\* The targets whose datasource exists and supports Explore.
ExploreTargets ==
  { i \in DOMAIN panel.targets :
      LET ds == panel.registry[Get(panel.targets[i], "datasource").s]
      IN ds # Undef /\ ds.meta.explore }

FirstExploreTarget == CHOOSE i \in ExploreTargets : \A j \in ExploreTargets : i <= j

\* C5: on a mixed panel the targets are resolved one at a time in their
\* order; the datasource chosen is the one of the earliest target whose
\* datasource exists and supports Explore, no target after it is resolved,
\* and a later target never replaces it.
C5_FirstMatchWins ==
  /\ resolved = [i \in 1..Len(resolved) |-> i]
  /\ pc = "await" => Len(resolved) = targetIndex - 1
  /\ ExploreTargets # {} => Len(resolved) <= FirstExploreTarget
  /\ mixedExploreDatasource # Undef =>
       /\ ExploreTargets # {}
       /\ Len(resolved) = FirstExploreTarget
       /\ mixedExploreDatasource =
            panel.registry[Get(panel.targets[FirstExploreTarget], "datasource").s]
  /\ (pc = "done" /\ panel.panelDatasource.meta.id = "mixed") =>
       IF ExploreTargets # {}
       THEN /\ mixedExploreDatasource # Undef
            /\ Len(resolved) = FirstExploreTarget
       ELSE /\ mixedExploreDatasource = Undef
            /\ Len(resolved) = Len(panel.targets)

\* The first target supports Explore and its datasource resolves slowly; the
\* second target supports Explore too and its datasource resolves at once;
\* the first target's datasource was chosen and the second never resolved.
C5_Witness ==
  /\ pc = "done"
  /\ panel.panelDatasource.meta.id = "mixed"
  /\ Len(panel.targets) >= 2
  /\ {1, 2} \subseteq ExploreTargets
  /\ panel.latency[Get(panel.targets[1], "datasource").s] >
       panel.latency[Get(panel.targets[2], "datasource").s]
  /\ resolved = <<1>>
  /\ mixedExploreDatasource = panel.registry[Get(panel.targets[1], "datasource").s]
  /\ mixedExploreDatasource # panel.registry[Get(panel.targets[2], "datasource").s]
====
